---------------------------- MODULE Spec2Model ----------------------------
(***************************************************************************)
(* A model of the 1337x scraper (src/src/main.rs): the scalar parsers      *)
(* (parse_time_offset, parse_data_size, parse_file), the record extractor  *)
(* (scrape_torrent), the chunked checkpoint store (Stash) and the crawl    *)
(* driver (main).                                                          *)
(***************************************************************************)
EXTENDS Integers, Sequences, FiniteSets, TLC

VARIABLES
    loaded_chunk,   \* Stash.loaded_chunk
    chunk,          \* Stash.chunk : BTreeMap<usize, Option<TorrentInfo>>
    disk,           \* the directory stash/: chunk id -> file stash/<id>.json
    pc,             \* position of the process
    cause,          \* why the process ended, when it has ("none" while it runs)
    putLog,         \* history: id -> the record last handed to insert
    lastOp,         \* history: the last store operation and what it met
    pending,        \* the store call whose file write is under way
    flushed,        \* history: chunk id -> the map its last completed save wrote
    i,              \* main: the cursor
    queries,        \* main: the number of ids processed in this run
    outcome,        \* main: what scrape_torrent(i) returned
    firstFetch,     \* history: the first id fetched in this run (0: none yet)
    startIds,       \* history: the ids the store held when the run started
    sinceFlush,     \* history: the number of ids processed since the last save
    arg,            \* the input of the function under check
    result,         \* its result
    overflow_checks \* whether the build checks integer overflow (debug) or wraps

storeVars == <<loaded_chunk, chunk, disk, pc, cause>>
histVars == <<putLog, lastOp>>
crashVars == <<pending, flushed>>
driverVars == <<i, queries, outcome, firstFetch, startIds, sinceFlush>>
fnVars == <<arg, result, overflow_checks>>
vars == <<storeVars, histVars, crashVars, driverVars, fnVars>>

(***************************************************************************)
(* Values                                                                  *)
(***************************************************************************)

\* Option<T>: None is the empty tuple, Some(x) the one-element tuple.
None == <<>>
Some(x) == <<x>>
IsSome(o) == Len(o) = 1
Unwrap(o) == o[1]

\* BTreeMap<usize, _> as a function on its key set.
EmptyMap == [x \in {} |-> None]
MapInsert(m, k, v) == [x \in DOMAIN m \cup {k} |-> IF x = k THEN v ELSE m[x]]

(***************************************************************************)
(* Text: a &str is a sequence of one-character strings                     *)
(***************************************************************************)

WhiteSpace == {" ", "\t", "\n"}

RECURSIVE trim_start(_)
trim_start(s) ==
    IF s # <<>> /\ Head(s) \in WhiteSpace THEN trim_start(Tail(s)) ELSE s

RECURSIVE trim_end(_)
trim_end(s) ==
    IF s # <<>> /\ s[Len(s)] \in WhiteSpace
    THEN trim_end(SubSeq(s, 1, Len(s) - 1))
    ELSE s

\* str::trim
trim(s) == trim_end(trim_start(s))

\* str::trim_end_matches(c): every trailing c goes, not only one.
RECURSIVE trim_end_matches(_, _)
trim_end_matches(s, c) ==
    IF s # <<>> /\ s[Len(s)] = c
    THEN trim_end_matches(SubSeq(s, 1, Len(s) - 1), c)
    ELSE s

\* str::split(c).collect::<Vec<_>>(): the pieces between the separators,
\* empty pieces included.
RECURSIVE split_from(_, _, _)
split_from(s, c, piece) ==
    IF s = <<>> THEN <<piece>>
    ELSE IF Head(s) = c THEN <<piece>> \o split_from(Tail(s), c, <<>>)
    ELSE split_from(Tail(s), c, Append(piece, Head(s)))
split(s, c) == split_from(s, c, <<>>)

\* str::rfind(c): the index (from 0) of the last c, or None.
RECURSIVE rfind_from(_, _, _)
rfind_from(s, c, k) ==
    IF k = 0 THEN None
    ELSE IF s[k] = c THEN Some(k - 1)
    ELSE rfind_from(s, c, k - 1)
rfind(s, c) == rfind_from(s, c, Len(s))

\* str::replace(c, "")
RECURSIVE remove_char(_, _)
remove_char(s, c) ==
    IF s = <<>> THEN <<>>
    ELSE IF Head(s) = c THEN remove_char(Tail(s), c)
    ELSE <<Head(s)>> \o remove_char(Tail(s), c)

ends_with(s, suffix) ==
    Len(s) >= Len(suffix) /\ SubSeq(s, Len(s) - Len(suffix) + 1, Len(s)) = suffix
starts_with(s, prefix) ==
    Len(s) >= Len(prefix) /\ SubSeq(s, 1, Len(prefix)) = prefix

DigitChars == <<"0", "1", "2", "3", "4", "5", "6", "7", "8", "9">>
IsDigit(c) == \E k \in 1..10 : DigitChars[k] = c
DigitVal(c) == (CHOOSE k \in 1..10 : DigitChars[k] = c) - 1

(***************************************************************************)
(* u64: eight limbs of eight bits, the least significant first             *)
(***************************************************************************)

LimbBase == 256
LimbCount == 8

\* The u64 of a natural number below 2^31.
RECURSIVE NatLimbs(_, _)
NatLimbs(n, k) ==
    IF k = 0 THEN <<>> ELSE <<n % LimbBase>> \o NatLimbs(n \div LimbBase, k - 1)
U64(n) == NatLimbs(n, LimbCount)
MaxU64 == [k \in 1..LimbCount |-> LimbBase - 1]

\* a * m + c for small m and c: the low 64 bits, and whether more were needed.
RECURSIVE mul_add_from(_, _, _, _)
mul_add_from(a, m, carry, k) ==
    IF k > LimbCount THEN [val |-> <<>>, overflow |-> carry > 0]
    ELSE LET t == a[k] * m + carry
             rest == mul_add_from(a, m, t \div LimbBase, k + 1)
         IN  [val |-> <<t % LimbBase>> \o rest.val, overflow |-> rest.overflow]
mul_add(a, m, c) == mul_add_from(a, m, c, 1)

\* a - b: the low 64 bits, and whether the true difference is negative.
RECURSIVE sub_from(_, _, _, _)
sub_from(a, b, borrow, k) ==
    IF k > LimbCount THEN [val |-> <<>>, overflow |-> borrow > 0]
    ELSE LET t == a[k] - b[k] - borrow
             rest == sub_from(a, b, IF t < 0 THEN 1 ELSE 0, k + 1)
         IN  [val |-> <<IF t < 0 THEN t + LimbBase ELSE t>> \o rest.val,
              overflow |-> rest.overflow]
sub(a, b) == sub_from(a, b, 0, 1)

\* str::parse::<u64>: an optional '+', then digits; Err on anything else and
\* on a value of 2^64 or more.
RECURSIVE parse_digits(_, _)
parse_digits(s, acc) ==
    IF s = <<>> THEN Some(acc)
    ELSE IF ~IsDigit(Head(s)) THEN None
    ELSE LET r == mul_add(acc, 10, DigitVal(Head(s)))
         IN  IF r.overflow THEN None ELSE parse_digits(Tail(s), r.val)
parse_u64(s) ==
    LET digits == IF s # <<>> /\ Head(s) = "+" THEN Tail(s) ELSE s
    IN  IF digits = <<>> THEN None ELSE parse_digits(digits, U64(0))

(***************************************************************************)
(* parse_time_offset                                                       *)
(***************************************************************************)

\* The result of a function that can panic: the value it returns unless it
\* panicked.
Returned(v) == [panicked |-> FALSE, value |-> v]
Panicked == [panicked |-> TRUE, value |-> None]

\* The multiplications of each arm of the match, in the order the code does
\* them; None for a unit of no arm.
UnitFactors(unit) ==
    CASE unit = <<"s", "e", "c", "o", "n", "d">> -> Some(<<>>)
      [] unit = <<"m", "i", "n", "u", "t", "e">> -> Some(<<60>>)
      [] unit = <<"h", "o", "u", "r">> -> Some(<<60, 60>>)
      [] unit = <<"d", "a", "y">> -> Some(<<86400>>)
      [] unit = <<"w", "e", "e", "k">> -> Some(<<86400, 7>>)
      [] unit = <<"m", "o", "n", "t", "h">> -> Some(<<86400, 30>>)
      [] unit = <<"y", "e", "a", "r">> -> Some(<<86400, 365>>)
      [] unit = <<"d", "e", "c", "a", "d", "e">> -> Some(<<86400, 365, 10>>)
      [] OTHER -> None

\* number * f1 * f2 ...: each product is checked when the build checks
\* overflow (the process panics) and wraps modulo 2^64 when it does not.
RECURSIVE times(_, _, _)
times(checks, number, factors) ==
    IF factors = <<>> THEN Returned(number)
    ELSE LET r == mul_add(number, Head(factors), 0)
         IN  IF r.overflow /\ checks THEN Panicked
             ELSE times(checks, r.val, Tail(factors))

\* now - offset, checked or wrapping in the same way.
minus(checks, now, offset) ==
    LET r == sub(now, offset)
    IN  IF r.overflow /\ checks THEN Panicked ELSE Returned(Some(r.val))

\* fn parse_time_offset(now: u64, value: &str) -> Option<u64>
parse_time_offset(checks, now, value) ==
    LET v == trim(value)
        parts == split(v, " ")
    IN  IF v = <<>> THEN Returned(None)
        ELSE IF Len(parts) # 3 THEN Returned(None)
        ELSE LET number == parse_u64(parts[1])
                 unit == parts[2]
                 ago == parts[3]
                 factors == UnitFactors(trim_end_matches(unit, "s"))
             IN  IF ~IsSome(number) THEN Returned(None)
                 ELSE IF ago # <<"a", "g", "o">> THEN Returned(None)
                 ELSE IF ~IsSome(factors) THEN Returned(None)
                 ELSE LET offset == times(checks, Unwrap(number), Unwrap(factors))
                      IN  IF offset.panicked THEN Panicked
                          ELSE minus(checks, now, offset.value)

(***************************************************************************)
(* parse_data_size and parse_file                                          *)
(***************************************************************************)

\* a / m for a small m, rounded down.
RECURSIVE div_from(_, _, _, _)
div_from(a, m, rem, k) ==
    IF k = 0 THEN <<>>
    ELSE LET cur == rem * LimbBase + a[k]
         IN  Append(div_from(a, m, cur % m, k - 1), cur \div m)
div_small(a, m) == div_from(a, m, 0, LimbCount)

\* str::parse::<f64> on tokens over the digits, '.', '+' and '-': an optional
\* sign, digits with at most one '.', one digit at least.  The value is kept
\* exactly, as mantissa / 10^places; None is Err.
\* (The decimal is exact where the f64 is rounded.  Every product below is by
\* a power of two, so the two agree after the cast wherever the decimal has
\* at most three places and the size is under 2^43, as in the texts tried.)
parse_f64(s) ==
    LET signed == s # <<>> /\ Head(s) \in {"+", "-"}
        body == IF signed THEN Tail(s) ELSE s
        parts == split(body, ".")
        whole == parts[1]
        frac == IF Len(parts) = 2 THEN parts[2] ELSE <<>>
        mantissa == parse_digits(whole \o frac, U64(0))
    IN  IF Len(parts) > 2 \/ whole \o frac = <<>> \/ ~IsSome(mantissa) THEN None
        ELSE Some([negative |-> (signed /\ Head(s) = "-"),
                   mantissa |-> Unwrap(mantissa),
                   places |-> Len(frac)])

\* How many times the arm of a unit multiplies by 1024.0; None for a unit of
\* no arm.
UnitPower(unit) ==
    CASE unit = <<"B">> -> Some(0)
      [] unit = <<"K", "B">> -> Some(1)
      [] unit = <<"M", "B">> -> Some(2)
      [] unit = <<"G", "B">> -> Some(3)
      [] unit = <<"T", "B">> -> Some(4)
      [] OTHER -> None

RECURSIVE scale_up(_, _)
scale_up(a, power) ==
    IF power = 0 THEN [val |-> a, overflow |-> FALSE]
    ELSE LET r == mul_add(a, 1024, 0)
         IN  IF r.overflow THEN r ELSE scale_up(r.val, power - 1)

RECURSIVE scale_down(_, _)
scale_down(a, places) ==
    IF places = 0 THEN a ELSE scale_down(div_small(a, 10), places - 1)

\* (number * 1024.0 * ...) as u64: the cast rounds toward zero and saturates,
\* a negative number gives 0.
cast_scaled(number, power) ==
    LET up == scale_up(number.mantissa, power)
    IN  IF number.negative THEN U64(0)
        ELSE IF up.overflow THEN MaxU64
        ELSE scale_down(up.val, number.places)

\* fn parse_data_size(value: &str) -> Option<u64>
parse_data_size(value) ==
    LET v == trim(value)
        parts == split(v, " ")
    IN  IF v = <<>> THEN None
        ELSE IF Len(parts) # 2 THEN None
        ELSE LET number == parse_f64(remove_char(parts[1], ","))
                 unit == parts[2]
                 power == UnitPower(trim_end_matches(unit, "s"))
             IN  IF ~IsSome(number) THEN None
                 ELSE IF ~IsSome(power) THEN None
                 ELSE Some(cast_scaled(Unwrap(number), Unwrap(power)))

\* struct File
File(name, size) == [name |-> name, size |-> size]

\* fn parse_file(value: &str) -> Option<File>
parse_file(value) ==
    LET v == trim(value)
        index == rfind(v, "(")
    IN  IF v = <<>> \/ ~ends_with(v, <<")">>) THEN None
        ELSE IF ~IsSome(index) THEN None
        ELSE LET name == trim(SubSeq(v, 1, Unwrap(index)))
                 size == parse_data_size(SubSeq(v, Unwrap(index) + 2, Len(v) - 1))
             IN  IF ~IsSome(size) THEN None
                 ELSE Some(File(name, Unwrap(size)))

(***************************************************************************)
(* scrape_torrent: the record extractor                                    *)
(*                                                                         *)
(* A response is a record of what the transport and the selectors give:    *)
(*   send_ok      whether minreq's send() returned a response              *)
(*   status       the status code                                          *)
(*   markers      which of the two marker strings the body contains        *)
(*   lists        the number of elements matching ".list"                  *)
(*   spans        the spans of the second and third list, each the         *)
(*                sequence of its text nodes                               *)
(*   movie_link   the href of ".torrent-detail-info h3>a", if any          *)
(*   infohash, h1, description   the text nodes of the first match, if any *)
(*   images, trackers, files     the attribute values / item texts         *)
(*   comment_count               the first text node of the badge, if any  *)
(*   comments     the answer of the comment feed                           *)
(***************************************************************************)

Ok(v) == [kind |-> "ok", value |-> v]
Err(msg) == [kind |-> "err", value |-> <<msg>>]
Panic == [kind |-> "panic", value |-> <<>>]

\* Vec<&str>::join(sep)
RECURSIVE join(_, _)
join(pieces, sep) ==
    IF pieces = <<>> THEN <<>>
    ELSE IF Len(pieces) = 1 THEN pieces[1]
    ELSE pieces[1] \o sep \o join(Tail(pieces), sep)

\* str::lines(): the pieces between line feeds, without a last empty one.
lines(s) ==
    LET pieces == split(s, "\n")
    IN  IF pieces[Len(pieces)] = <<>> THEN SubSeq(pieces, 1, Len(pieces) - 1) ELSE pieces

\* .text().next().unwrap_or_default()
first_text(texts) == IF texts = <<>> THEN <<>> ELSE texts[1]

\* .text().map(|s| s.trim()).find(|s| !s.is_empty()).unwrap_or_default()
RECURSIVE first_non_blank(_)
first_non_blank(texts) ==
    IF texts = <<>> THEN <<>>
    ELSE IF trim(texts[1]) # <<>> THEN trim(texts[1])
    ELSE first_non_blank(Tail(texts))

\* .map(|t| t.trim()).filter(|t| !t.is_empty())
RECURSIVE non_blank(_)
non_blank(texts) ==
    IF texts = <<>> THEN <<>>
    ELSE IF trim(texts[1]) # <<>> THEN <<trim(texts[1])>> \o non_blank(Tail(texts))
    ELSE non_blank(Tail(texts))

RECURSIVE non_empty(_)
non_empty(pieces) ==
    IF pieces = <<>> THEN <<>>
    ELSE IF pieces[1] # <<>> THEN <<pieces[1]>> \o non_empty(Tail(pieces))
    ELSE non_empty(Tail(pieces))

\* The markers of a page that stands for no torrent.
Markers == {"Bad Torrent ID.", "This torrent is hidden and pending moderation."}

\* The ten spans, in the order of the page.
general(checks, now, spans) ==
    LET category == first_text(spans[1])
        ty == first_text(spans[2])
        language == first_text(spans[3])
        total_size == parse_data_size(first_text(spans[4]))
        uploader == first_non_blank(spans[5])
        downloads == parse_u64(first_text(spans[6]))
        last_checked_ts == parse_time_offset(checks, now, first_text(spans[7]))
        uploaded_ts == parse_time_offset(checks, now, first_text(spans[8]))
        seeders == parse_u64(first_text(spans[9]))
        leechers == parse_u64(first_text(spans[10]))
    IN  IF ~IsSome(total_size) THEN Err("Invalid size")
        ELSE IF ~IsSome(downloads) THEN Err("Invalid downloads")
        ELSE IF last_checked_ts.panicked THEN Panic
        ELSE IF ~IsSome(last_checked_ts.value) THEN Err("Invalid last checked")
        ELSE IF uploaded_ts.panicked THEN Panic
        ELSE IF ~IsSome(uploaded_ts.value) THEN Err("Invalid uploaded")
        ELSE IF ~IsSome(seeders) THEN Err("ParseIntError")
        ELSE IF ~IsSome(leechers) THEN Err("ParseIntError")
        ELSE Ok([category |-> category, ty |-> ty, language |-> language,
                 total_size |-> Unwrap(total_size), uploader |-> uploader,
                 downloads |-> Unwrap(downloads),
                 last_checked_ts |-> Unwrap(last_checked_ts.value),
                 uploaded_ts |-> Unwrap(uploaded_ts.value),
                 seeders |-> Unwrap(seeders), leechers |-> Unwrap(leechers)])

\* The labeled block 'tmdb_id: the two identities of the link, either or
\* both None.
identity(movie_link) ==
    LET link == Unwrap(movie_link)
        parts == non_empty(split(link, "/"))
        neither == [tmdb_id |-> None, series_id |-> None]
    IN  IF ~IsSome(movie_link) THEN neither
        ELSE IF starts_with(link, <<"/", "m", "o", "v", "i", "e", "/">>)
        THEN IF Len(parts) # 3 THEN neither
             ELSE [tmdb_id |-> parse_u64(parts[2]), series_id |-> None]
        ELSE IF starts_with(link, <<"/", "s", "e", "r", "i", "e", "s", "/">>)
        THEN IF Len(parts) # 2 THEN neither
             ELSE [tmdb_id |-> None, series_id |-> Some(parts[2])]
        ELSE neither

\* Name and description: the heading without its "...", the description
\* joined, and the first line of the description taken as the name when the
\* description repeats the name.  lines().next().unwrap() panics on a
\* description of no line.
titled(h1, description_el) ==
    LET heading == trim(join(h1, <<>>))
        name_incomplete == ends_with(heading, <<".", ".", ".">>)
        name == IF name_incomplete THEN SubSeq(heading, 1, Len(heading) - 3) ELSE heading
        parts == non_blank(description_el)
        description_parts ==
            IF parts = <<<<"N", "o", " ", "d", "e", "s", "c", "r", "i", "p", "t", "i", "o", "n", " ", "g", "i", "v", "e", "n", ".">>>> THEN <<>> ELSE parts
        description == join(description_parts, <<"\n">>)
    IN  IF \/ name_incomplete /\ starts_with(description, name)
           \/ ~name_incomplete /\ starts_with(description, name \o <<"\n">>)
        THEN IF lines(description) = <<>> THEN Panic
             ELSE Ok([name |-> lines(description)[1],
                      description |-> join(Tail(lines(description)), <<"\n">>)])
        ELSE Ok([name |-> name, description |-> description])

\* The files that parse_file accepts, in order.
RECURSIVE parsed_files(_)
parsed_files(raw_files) ==
    IF raw_files = <<>> THEN <<>>
    ELSE LET file == parse_file(trim(raw_files[1]))
         IN  (IF IsSome(file) THEN <<Unwrap(file)>> ELSE <<>>)
             \o parsed_files(Tail(raw_files))

\* The loop over the raw comments: those with a posted time that parses.
RECURSIVE converted(_, _, _)
converted(checks, now, raw_comments) ==
    IF raw_comments = <<>> THEN Ok(<<>>)
    ELSE LET raw_comment == raw_comments[1]
             posted == parse_time_offset(checks, now, raw_comment.posted)
             rest == converted(checks, now, Tail(raw_comments))
             deleted == <<"[", "d", "e", "l", "e", "t", "e", "d", "]">>
             comment ==
                 [avatar |-> raw_comment.avatar,
                  class |-> IF IsSome(raw_comment.class)
                            THEN Unwrap(raw_comment.class) ELSE deleted,
                  comment |-> raw_comment.comment,
                  commentid |-> raw_comment.commentid,
                  posted |-> Unwrap(posted.value),
                  username |-> IF IsSome(raw_comment.username)
                               THEN Unwrap(raw_comment.username) ELSE deleted]
         IN  IF posted.panicked THEN Panic
             ELSE IF rest.kind # "ok" THEN rest
             ELSE IF ~IsSome(posted.value) THEN rest
             ELSE Ok(<<comment>> \o rest.value)

\* The labeled block 'comments.
commented(checks, now, comment_count, feed) ==
    LET count == IF IsSome(comment_count) THEN parse_u64(Unwrap(comment_count)) ELSE None
    IN  IF ~IsSome(count) \/ Unwrap(count) = U64(0) THEN Ok(<<>>)
        ELSE IF ~feed.send_ok THEN Err("transport")
        ELSE IF ~feed.utf8 THEN Err("Utf8Error")
        ELSE IF feed.status # 200 THEN Ok(<<>>)
        ELSE IF ~IsSome(feed.json) THEN Err("serde_json")
        ELSE converted(checks, now, Unwrap(feed.json))

\* The page has three lists and ten spans: the rest of scrape_torrent.
extracted(checks, now, doc) ==
    LET g == general(checks, now, doc.spans)
        ids == identity(doc.movie_link)
        t == titled(Unwrap(doc.h1), Unwrap(doc.description))
        c == commented(checks, now, doc.comment_count, doc.comments)
    IN  IF g.kind # "ok" THEN g
        ELSE IF ~IsSome(doc.infohash) THEN Err("No infohash found")
        ELSE IF ~IsSome(doc.h1) THEN Err("No h1 found")
        ELSE IF ~IsSome(doc.description) THEN Err("No description found")
        ELSE IF t.kind # "ok" THEN t
        ELSE IF c.kind # "ok" THEN c
        ELSE Ok(Some(
            [name |-> t.value.name,
             description |-> t.value.description,
             infohash |-> trim(join(Unwrap(doc.infohash), <<>>)),
             category |-> g.value.category,
             ty |-> g.value.ty,
             language |-> g.value.language,
             total_size |-> g.value.total_size,
             uploader |-> g.value.uploader,
             downloads |-> g.value.downloads,
             last_checked_ts |-> g.value.last_checked_ts,
             uploaded_ts |-> g.value.uploaded_ts,
             seeders |-> g.value.seeders,
             leechers |-> g.value.leechers,
             scraped_ts |-> now,
             tmdb_id |-> ids.tmdb_id,
             series_id |-> ids.series_id,
             images |-> doc.images,
             trackers |-> [k \in DOMAIN doc.trackers |-> trim(doc.trackers[k])],
             files |-> parsed_files(doc.files),
             comments |-> c.value]))

\* fn scrape_torrent(id: usize) -> Result<Option<TorrentInfo>, anyhow::Error>
\* on the response doc, at the instant now.
scrape_torrent(checks, now, doc) ==
    IF ~doc.send_ok THEN Err("transport")
    ELSE IF doc.status # 200 THEN Err("Unexpected status code")
    ELSE IF doc.lists # 3
    THEN IF doc.markers \cap Markers # {} THEN Ok(None)
         ELSE Err("Unexpected number of lists")
    ELSE IF Len(doc.spans) # 10 THEN Err("Unexpected number of spans")
    ELSE extracted(checks, now, doc)

(***************************************************************************)
(* Stash: the checkpoint store                                             *)
(***************************************************************************)

\* i.div_euclid(1000)
ChunkSize == 1000
ChunkOf(id) == id \div ChunkSize

\* A file of stash/: absent, holding the pretty-printed JSON of a map, or
\* torn (truncated by std::fs::write, the new bytes not all written yet).
AbsentFile == [st |-> "absent", map |-> EmptyMap]
TornFile == [st |-> "torn", map |-> EmptyMap]
JsonFile(m) == [st |-> "ok", map |-> m]

\* The in-memory Stash, with the directory it works on; failed is set when an
\* unwrap() of the store panicked.
Stash(lc, c, d, f) == [loaded_chunk |-> lc, chunk |-> c, disk |-> d, failed |-> f]

\* Stash::open: reads stash/0.json and unwraps both the read and the parse.
open(d) ==
    IF d[0].st = "ok"
    THEN Stash(0, d[0].map, d, FALSE)
    ELSE Stash(0, EmptyMap, d, TRUE)

\* Stash::save: the whole resident map replaces the file of loaded_chunk.
save(s) == [s EXCEPT !.disk[s.loaded_chunk] = JsonFile(s.chunk)]

\* Mutant of load_chunk: the outgoing chunk is not saved before the switch.
load_chunk_nosave(s, chunck_id) ==
    LET f == s.disk[chunck_id]
    IN  IF f.st = "torn"
        THEN [s EXCEPT !.loaded_chunk = chunck_id, !.failed = TRUE]
        ELSE [s EXCEPT !.loaded_chunk = chunck_id, !.chunk = f.map]

\* Stash::load_chunk: save, then read the new file; a missing file reads as
\* "{}", a file that is no JSON panics in the unwrap of from_str.
load_chunk(s, chunck_id) ==
    LET saved == save(s)
        f == saved.disk[chunck_id]
    IN  IF f.st = "torn"
        THEN [saved EXCEPT !.loaded_chunk = chunck_id, !.failed = TRUE]
        ELSE [saved EXCEPT !.loaded_chunk = chunck_id, !.chunk = f.map]

\* Mutant of load_item_chunk: the chunk of the id is never made resident.
load_item_chunk_noswitch(s, id) == s

\* Stash::load_item_chunk
load_item_chunk(s, id) ==
    LET chunk_id == ChunkOf(id)
    IN  IF s.loaded_chunk # chunk_id THEN load_chunk(s, chunk_id) ELSE s

\* Stash::insert
insert(s, id, info) ==
    LET t == load_item_chunk(s, id)
    IN  IF t.failed THEN t ELSE [t EXCEPT !.chunk = MapInsert(t.chunk, id, info)]

\* Mutant of contains_key: a tombstone (None) counts as absent.
contains_key_items_only(s, id) ==
    LET t == load_item_chunk(s, id)
    IN  [stash |-> t,
         found |-> (~t.failed /\ id \in DOMAIN t.chunk /\ IsSome(t.chunk[id]))]

\* Stash::contains_key: the store after the call, and the answer.
contains_key(s, id) ==
    LET t == load_item_chunk(s, id)
    IN  [stash |-> t, found |-> (~t.failed /\ id \in DOMAIN t.chunk)]


(***************************************************************************)
(* The store on its own: open, then any sequence of contains_key, insert   *)
(* and save calls (SpecStore)                                              *)
(***************************************************************************)

\* Chunks 0..MaxChunk exist in the model; the ids used sit on both sides of
\* each chunk boundary below MaxChunk*1000.
MaxChunk == 1
ChunkIds == 0..MaxChunk
StoreIds == {k * ChunkSize - 1 : k \in 1..MaxChunk} \cup {k * ChunkSize : k \in 1..MaxChunk}

\* Two TorrentInfo values and the tombstone.
InfoA == [name |-> "a"]
InfoB == [name |-> "b"]
StoreRecords == {None, Some(InfoA), Some(InfoB)}

\* Every map over ids of one chunk.
MapsOver(ids, recs) == UNION {[s -> recs] : s \in SUBSET ids}
IdsOfChunk(ids, k) == {id \in ids : ChunkOf(id) = k}

\* The directories a run can have left behind: each chunk file is missing or
\* holds a map over ids of its own range.
FilesOfChunk(ids, recs, k) ==
    {AbsentFile} \cup {JsonFile(m) : m \in MapsOver(IdsOfChunk(ids, k), recs)}
Directories(ids, recs) ==
    {d \in [ChunkIds -> UNION {FilesOfChunk(ids, recs, k) : k \in ChunkIds}] :
        \A k \in ChunkIds : d[k] \in FilesOfChunk(ids, recs, k)}

NoOp == [op |-> "none", id |-> 0, missing |-> FALSE, found |-> FALSE]

\* The values of the variables a specification does not use.
IdleHist == putLog = EmptyMap /\ lastOp = NoOp
IdleCrash == pending = NoOp /\ flushed = EmptyMap
IdleDriver ==
    /\ i = 0 /\ queries = 0 /\ outcome = None /\ firstFetch = 0
    /\ startIds = {} /\ sinceFlush = 0
IdleFn == arg = None /\ result = None /\ overflow_checks = FALSE
IdleStore ==
    /\ loaded_chunk = 0 /\ chunk = EmptyMap /\ disk = [k \in ChunkIds |-> AbsentFile]
    /\ cause = "none"

InitStore ==
    /\ disk \in Directories(StoreIds, {None, Some(InfoA)})
    /\ loaded_chunk = 0
    /\ chunk = EmptyMap
    /\ pc = "closed"
    /\ cause = "none"
    /\ putLog = EmptyMap
    /\ lastOp = NoOp
    /\ IdleCrash /\ IdleDriver /\ IdleFn

\* The variables of the store take the values of a Stash record; a panic of
\* the store ends the process.
Becomes(s) ==
    /\ loaded_chunk' = s.loaded_chunk
    /\ chunk' = s.chunk
    /\ disk' = s.disk
    /\ pc' = IF s.failed THEN "panicked" ELSE "open"
    /\ cause' = IF s.failed THEN "storage" ELSE cause

Current == Stash(loaded_chunk, chunk, disk, FALSE)

\* Whether a call on id i has to read a chunk file that is missing.
ReadsMissing(id) == loaded_chunk # ChunkOf(id) /\ disk[ChunkOf(id)].st = "absent"

\* let mut stash = Stash::open();
StoreOpen ==
    /\ pc = "closed"
    /\ Becomes(open(disk))
    /\ lastOp' = [op |-> "open", id |-> 0, missing |-> (disk[0].st = "absent"),
                  found |-> FALSE]
    /\ UNCHANGED <<putLog, crashVars, driverVars, fnVars>>

\* stash.contains_key(&i)
StoreContains(id) ==
    /\ pc = "open"
    /\ LET r == contains_key(Current, id)
       IN  /\ Becomes(r.stash)
           /\ lastOp' = [op |-> "contains", id |-> id, missing |-> ReadsMissing(id),
                         found |-> r.found]
    /\ UNCHANGED <<putLog, crashVars, driverVars, fnVars>>

\* stash.insert(i, info)
StorePut(id, info) ==
    /\ pc = "open"
    /\ Becomes(insert(Current, id, info))
    /\ putLog' = MapInsert(putLog, id, info)
    /\ lastOp' = [op |-> "put", id |-> id, missing |-> ReadsMissing(id),
                  found |-> FALSE]
    /\ UNCHANGED <<crashVars, driverVars, fnVars>>

\* stash.save()
StoreFlush ==
    /\ pc = "open"
    /\ Becomes(save(Current))
    /\ lastOp' = [op |-> "flush", id |-> 0, missing |-> FALSE, found |-> FALSE]
    /\ UNCHANGED <<putLog, crashVars, driverVars, fnVars>>

NextStore ==
    \/ StoreOpen
    \/ \E id \in StoreIds : StoreContains(id)
    \/ \E id \in StoreIds, info \in StoreRecords : StorePut(id, info)
    \/ StoreFlush

SpecStore == InitStore /\ [][NextStore]_vars

\* Whether the file of chunk k holds the mapping i -> v.
FileHolds(d, id, v) ==
    LET f == d[ChunkOf(id)]
    IN  f.st = "ok" /\ id \in DOMAIN f.map /\ f.map[id] = v

\* C1: no put is lost across a chunk residency switch: every mapping that
\* was put is, at every later point, in the resident chunk or in the
\* persisted file of the chunk that owns the id.
NoPutLost ==
    pc = "open" =>
        \A id \in DOMAIN putLog :
            \/ loaded_chunk = ChunkOf(id) /\ id \in DOMAIN chunk /\ chunk[id] = putLog[id]
            \/ FileHolds(disk, id, putLog[id])

\* C1's case: an id was put, its chunk has since been switched out and only
\* the chunk file that the switch wrote still holds its mapping.
NoPutLostWitness ==
    /\ pc = "open"
    /\ \E id \in DOMAIN putLog :
        /\ loaded_chunk # ChunkOf(id)
        /\ FileHolds(disk, id, putLog[id])
        /\ putLog[id] = Some(InfoB)

\* C6: every persisted chunk file k holds only ids i with i div 1000 = k,
\* and the resident chunk holds only ids of the loaded chunk's range.
ChunkRanges ==
    /\ \A k \in ChunkIds :
        disk[k].st = "ok" => \A id \in DOMAIN disk[k].map : ChunkOf(id) = k
    /\ \A id \in DOMAIN chunk : ChunkOf(id) = loaded_chunk

\* C6's case: 999 and 1000 were both put and sit in two distinct files, each
\* holding only the id of its own range.
ChunkRangesWitness ==
    /\ {999, 1000} \subseteq DOMAIN putLog
    /\ disk[0].st = "ok" /\ DOMAIN disk[0].map = {999}
    /\ disk[1].st = "ok" /\ DOMAIN disk[1].map = {1000}

\* C10: a chunk whose file is missing is made resident empty, every id of
\* its range reported absent, and the access does not fail; this includes
\* chunk 0, made resident when the store is opened.
MissingChunkIsEmpty ==
    lastOp.missing =>
        /\ pc # "panicked"
        /\ lastOp.op = "open" => chunk = EmptyMap
        /\ lastOp.op = "contains" => ~lastOp.found

(***************************************************************************)
(* The store under crashes (SpecCrash): std::fs::write truncates the file  *)
(* and then writes the new bytes, and the process can die at any step      *)
(***************************************************************************)

\* Whether a store call writes a chunk file: save always does, contains_key
\* and insert when the chunk of the id is not the resident one.
Writes(op) == op.op = "flush" \/ ChunkOf(op.id) # loaded_chunk

StoreOps ==
    {[op |-> "flush", id |-> 0, info |-> None]}
    \cup {[op |-> "contains", id |-> id, info |-> None] : id \in StoreIds}
    \cup {[op |-> "put", id |-> id, info |-> info] : id \in StoreIds, info \in StoreRecords}

\* The store after the whole call.
AfterOp(s, op) ==
    CASE op.op = "flush" -> save(s)
      [] op.op = "contains" -> contains_key(s, op.id).stash
      [] op.op = "put" -> insert(s, op.id, op.info)

InitCrash ==
    /\ disk \in Directories(StoreIds, {None, Some(InfoA)})
    /\ loaded_chunk = 0
    /\ chunk = EmptyMap
    /\ pc = "closed"
    /\ cause = "none"
    /\ pending = NoOp
    /\ flushed = [k \in ChunkIds |-> disk[k].map]
    /\ IdleHist /\ IdleDriver /\ IdleFn

\* Stash::open at the start of a run, the first or one after a crash.
CrashOpen ==
    /\ pc = "closed"
    /\ Becomes(open(disk))
    /\ UNCHANGED <<pending, flushed, histVars, driverVars, fnVars>>

\* A call that writes no file runs in memory.
CrashCall(op) ==
    /\ pc = "open"
    /\ ~Writes(op)
    /\ Becomes(AfterOp(Current, op))
    /\ UNCHANGED <<pending, flushed, histVars, driverVars, fnVars>>

\* std::fs::write, first half: the file of the resident chunk is opened with
\* truncation.
CrashWriteBegin(op) ==
    /\ pc = "open"
    /\ Writes(op)
    /\ disk' = [disk EXCEPT ![loaded_chunk] = TornFile]
    /\ pc' = "writing"
    /\ pending' = op
    /\ UNCHANGED <<loaded_chunk, chunk, cause, flushed, histVars, driverVars, fnVars>>

\* std::fs::write, second half, and the rest of the call: the bytes are
\* written, the save is complete, and load_chunk goes on to read the file of
\* the new chunk.
CrashWriteEnd ==
    /\ pc = "writing"
    /\ Becomes(AfterOp(Current, pending))
    /\ flushed' = [flushed EXCEPT ![loaded_chunk] = chunk]
    /\ pending' = NoOp
    /\ UNCHANGED <<histVars, driverVars, fnVars>>

\* The process dies: what was in memory is gone, the directory stays.
Crash ==
    /\ pc \in {"open", "writing"}
    /\ pc' = "closed"
    /\ loaded_chunk' = 0
    /\ chunk' = EmptyMap
    /\ pending' = NoOp
    /\ UNCHANGED <<disk, cause, flushed, histVars, driverVars, fnVars>>

NextCrash ==
    \/ CrashOpen
    \/ \E op \in StoreOps : CrashCall(op)
    \/ \E op \in StoreOps : CrashWriteBegin(op)
    \/ CrashWriteEnd
    \/ Crash

SpecCrash == InitCrash /\ [][NextCrash]_vars

\* C2: whenever the process is down (before a restart), the directory still
\* holds every mapping that the last completed flush of each chunk wrote.
CrashKeepsFlushed ==
    pc = "closed" =>
        \A k \in ChunkIds : \A id \in DOMAIN flushed[k] :
            FileHolds(disk, id, flushed[k][id])

(***************************************************************************)
(* parse_time_offset on its own (SpecTime)                                 *)
(***************************************************************************)

\* The units of the match, and the counts and instants tried.
TimeUnits ==
    {<<"s", "e", "c", "o", "n", "d">>,
     <<"m", "i", "n", "u", "t", "e">>,
     <<"h", "o", "u", "r">>,
     <<"d", "a", "y">>,
     <<"w", "e", "e", "k">>,
     <<"m", "o", "n", "t", "h">>,
     <<"y", "e", "a", "r">>,
     <<"d", "e", "c", "a", "d", "e">>}
TimeCounts ==
    {<<"0">>,
     <<"1">>,
     <<"5">>,
     <<"6", "0">>,
     <<"2", "0", "0", "0", "0">>,
     <<"1", "8", "4", "4", "6", "7", "4", "4", "0", "7", "3", "7", "0", "9", "5", "5", "1", "6", "1", "5">>}
TimeNows == {U64(0), U64(100), U64(1700000000), MaxU64}

\* "<n> <unit> ago", the unit with or without its plural s.
TimeShape(n, unit, plural) == n \o <<" ">> \o unit \o plural \o <<" ", "a", "g", "o">>
Plurals == {<<>>, <<"s">>}
TimeShapes == {TimeShape(n, u, p) : n \in TimeCounts, u \in TimeUnits, p \in Plurals}

\* Texts of other shapes.
TimeOthers ==
    {<<>>,
     <<"a", "g", "o">>,
     <<"5", " ", "a", "g", "o">>,
     <<"5", " ", "f", "o", "r", "t", "n", "i", "g", "h", "t", "s", " ", "a", "g", "o">>,
     <<"x", " ", "d", "a", "y", "s", " ", "a", "g", "o">>,
     <<"5", " ", "d", "a", "y", "s", " ", "a", "h", "e", "a", "d">>,
     <<" ", "3", " ", "d", "a", "y", "s", " ", "a", "g", "o", "\n">>,
     <<"3", " ", " ", "d", "a", "y", "s", " ", "a", "g", "o">>,
     <<"+", "3", " ", "h", "o", "u", "r", "s", " ", "a", "g", "o">>,
     <<"1", "8", "4", "4", "6", "7", "4", "4", "0", "7", "3", "7", "0", "9", "5", "5", "1", "6", "1", "6", " ", "s", "e", "c", "o", "n", "d", "s", " ", "a", "g", "o">>}

InitTime ==
    /\ arg \in [now : TimeNows, text : TimeShapes \cup TimeOthers]
    /\ overflow_checks \in BOOLEAN
    /\ result = None
    /\ pc = "ready"
    /\ IdleStore /\ IdleHist /\ IdleCrash /\ IdleDriver

\* parse_time_offset(now, text)
ApplyTime ==
    /\ pc = "ready"
    /\ result' = parse_time_offset(overflow_checks, arg.now, arg.text)
    /\ pc' = "done"
    /\ UNCHANGED <<loaded_chunk, chunk, disk, cause, histVars, crashVars, driverVars,
                   arg, overflow_checks>>

NextTime == ApplyTime

SpecTime == InitTime /\ [][NextTime]_vars

\* The factor the specification gives each unit, as a product of small
\* numbers.
ClaimedFactor(unit) ==
    CASE unit = <<"s", "e", "c", "o", "n", "d">> -> <<1>>
      [] unit = <<"m", "i", "n", "u", "t", "e">> -> <<60>>
      [] unit = <<"h", "o", "u", "r">> -> <<3600>>
      [] unit = <<"d", "a", "y">> -> <<86400>>
      [] unit = <<"w", "e", "e", "k">> -> <<7, 86400>>
      [] unit = <<"m", "o", "n", "t", "h">> -> <<30, 86400>>
      [] unit = <<"y", "e", "a", "r">> -> <<365, 86400>>
      [] unit = <<"d", "e", "c", "a", "d", "e">> -> <<3650, 86400>>

\* C8: for every now and every text "<n> <unit> ago" of a recognized unit
\* the function returns now - n*factor(unit), a value that is not negative,
\* computed without overflow, wrap-around or abort, also when n*factor(unit)
\* is larger than now.
TimeOffsetExact ==
    pc = "done" =>
        \A n \in TimeCounts, u \in TimeUnits, p \in Plurals :
            arg.text = TimeShape(n, u, p) =>
                LET offset == times(TRUE, Unwrap(parse_u64(n)), ClaimedFactor(u))
                IN  /\ ~result.panicked
                    /\ ~offset.panicked
                    /\ ~sub(arg.now, offset.value).overflow
                    /\ result.value = Some(sub(arg.now, offset.value).val)

\* The part of C8 that the code does meet: when n*factor(unit) is at most
\* now, the result is now - n*factor(unit).
TimeOffsetInRange ==
    pc = "done" =>
        \A n \in TimeCounts, u \in TimeUnits, p \in Plurals :
            arg.text = TimeShape(n, u, p) =>
                LET offset == times(TRUE, Unwrap(parse_u64(n)), ClaimedFactor(u))
                IN  (~offset.panicked /\ ~sub(arg.now, offset.value).overflow) =>
                        result = Returned(Some(sub(arg.now, offset.value).val))

(***************************************************************************)
(* parse_file on its own (SpecFile)                                        *)
(***************************************************************************)

\* The names and size annotations tried, and the ways they are put together.
FileNames ==
    {<<>>,
     <<"M", "o", "v", "i", "e">>,
     <<"M", "o", "v", "i", "e", " ", "(", "P", "a", "r", "t", " ", "1", ")">>,
     <<"F", "i", "l", "e", "(", "2", ")", " ", "N", "a", "m", "e">>,
     <<"a", ")", "b">>,
     <<" ">>}
FileSizes ==
    {<<>>,
     <<"1", ".", "2", " ", "G", "B">>,
     <<"1", " ", "K", "B">>,
     <<"1", ",", "0", "2", "4", " ", "B">>,
     <<"1", ".", "5", " ", "M", "B", "s">>,
     <<"2", " ", "T", "B">>,
     <<"1", " ", "P", "B">>,
     <<"-", "1", " ", "K", "B">>,
     <<"K", "B">>,
     <<"1", " ", "2", " ", "K", "B">>,
     <<"1", ".", "2", ".", "3", " ", "K", "B">>,
     <<"x", " ", "K", "B">>}
FileTexts ==
    {n \o <<" ", "(">> \o z \o <<")">> : n \in FileNames, z \in FileSizes}
    \cup {n \o <<"(">> \o z \o <<")">> : n \in FileNames, z \in FileSizes}
    \cup {n \o <<" ", "(">> \o z : n \in FileNames, z \in FileSizes}
    \cup {n \o <<" ">> \o z \o <<")">> : n \in FileNames, z \in FileSizes}
    \cup {<<"b", "r", "o", "k", "e", "n">>, <<")">>, <<"(">>, <<"(", ")">>}

InitFile ==
    /\ arg \in [text : FileTexts]
    /\ overflow_checks = FALSE
    /\ result = None
    /\ pc = "ready"
    /\ IdleStore /\ IdleHist /\ IdleCrash /\ IdleDriver

\* parse_file(text)
ApplyFile ==
    /\ pc = "ready"
    /\ result' = parse_file(arg.text)
    /\ pc' = "done"
    /\ UNCHANGED <<loaded_chunk, chunk, disk, cause, histVars, crashVars, driverVars,
                   arg, overflow_checks>>

NextFile == ApplyFile

SpecFile == InitFile /\ [][NextFile]_vars

\* The pieces the claim speaks of, of a text taken without the white space
\* around it (the extractor hands parse_file trimmed texts): the part before
\* the last '(' and the part between it and the final ')'.
LastParen(text) == rfind(trim(text), "(")
NamePart(text) == trim(SubSeq(trim(text), 1, Unwrap(LastParen(text))))
SizePart(text) == SubSeq(trim(text), Unwrap(LastParen(text)) + 2, Len(trim(text)) - 1)

\* C7: parse_file_entry yields invalid whenever the text does not end with
\* ')', contains no '(', has an empty trimmed name before its last '(', or
\* has between its last '(' and the final ')' a string that parse_size
\* rejects; in every other case it yields the trimmed name and the size.
FileEntryAsClaimed ==
    pc = "done" =>
        IF \/ ~ends_with(trim(arg.text), <<")">>)
           \/ ~IsSome(LastParen(arg.text))
           \/ NamePart(arg.text) = <<>>
           \/ ~IsSome(parse_data_size(SizePart(arg.text)))
        THEN result = None
        ELSE result = Some(File(NamePart(arg.text),
                                Unwrap(parse_data_size(SizePart(arg.text)))))

\* What the code does meet of C7: the same with no condition on the name.
FileEntryAnyName ==
    pc = "done" =>
        IF \/ ~ends_with(trim(arg.text), <<")">>)
           \/ ~IsSome(LastParen(arg.text))
           \/ ~IsSome(parse_data_size(SizePart(arg.text)))
        THEN result = None
        ELSE result = Some(File(NamePart(arg.text),
                                Unwrap(parse_data_size(SizePart(arg.text)))))

(***************************************************************************)
(* scrape_torrent on its own (SpecExtract)                                 *)
(***************************************************************************)

\* The answer of the comment feed: one comment that converts, one whose
\* posted time does not.
RawComment(posted) ==
    [avatar |-> <<"/", "a", ".", "j", "p", "g">>, class |-> None, comment |-> <<"h", "i">>,
     commentid |-> U64(7), posted |-> posted, username |-> Some(<<"b", "o", "b">>)]
GoodFeed ==
    [send_ok |-> TRUE, utf8 |-> TRUE, status |-> 200,
     json |-> Some(<<RawComment(<<"2", " ", "d", "a", "y", "s", " ", "a", "g", "o">>), RawComment(<<"y", "e", "s", "t", "e", "r", "d", "a", "y">>)>>)]

\* A page of a torrent as the site serves it.
GoodDoc ==
    [send_ok |-> TRUE,
     status |-> 200,
     markers |-> {},
     lists |-> 3,
     spans |-> <<<<<<"T", "V">>>>, <<<<"H", "D">>>>, <<<<"e", "n">>>>,
                 <<<<"1", ".", "5", " ", "M", "B">>>>, <<<<" ">>, <<"a", "l">>>>, <<<<"1", "2">>>>,
                 <<<<"1", " ", "h", "o", "u", "r", " ", "a", "g", "o">>>>, <<<<"2", " ", "w", "e", "e", "k", "s", " ", "a", "g", "o">>>>,
                 <<<<"3">>>>, <<<<"0">>>>>>,
     movie_link |-> Some(<<"/", "m", "o", "v", "i", "e", "/", "4", "2", "/", "x", "/">>),
     infohash |-> Some(<<<<"A", "B", "1", "2">>>>),
     h1 |-> Some(<<<<"F", "o", "o">>>>),
     description |-> Some(<<<<"a", "b", "o", "u", "t">>>>),
     images |-> <<<<"i", ".", "p", "n", "g">>>>,
     trackers |-> <<<<"u", "d", "p", ":", "/", "/", "t">>>>,
     files |-> <<<<"F", "o", "o", " ", "(", "1", " ", "K", "B", ")">>, <<"b", "r", "o", "k", "e", "n">>>>,
     comment_count |-> None,
     comments |-> GoodFeed]

\* The not-found page: the marker, no list.
NotFoundDoc ==
    [GoodDoc EXCEPT !.markers = {"Bad Torrent ID."}, !.lists = 0, !.spans = <<>>,
                    !.movie_link = None, !.infohash = None, !.h1 = None,
                    !.description = None, !.images = <<>>, !.trackers = <<>>,
                    !.files = <<>>]

\* A server error.
ErrorDoc == [NotFoundDoc EXCEPT !.status = 500, !.markers = {}]

\* A page whose heading is only the ellipsis, with no description text.
EllipsisDoc == [GoodDoc EXCEPT !.h1 = Some(<<<<".", ".", ".">>>>), !.description = Some(<<>>)]

\* A page whose upload time lies before 1970.
UnderflowDoc == [GoodDoc EXCEPT !.spans[8] = <<<<"6", "0", " ", "y", "e", "a", "r", "s", " ", "a", "g", "o">>>>]

\* The first n spans of the page, or one more than it has.
SpansCut(n) ==
    IF n <= 10 THEN SubSeq(GoodDoc.spans, 1, n) ELSE Append(GoodDoc.spans, <<<<"x">>>>)

Headings == {<<<<"F", "o", "o">>>>, <<<<"F", "o", ".", ".", ".">>>>, <<<<".", ".", ".">>>>}
Descriptions ==
    {<<>>, <<<<"N", "o", " ", "d", "e", "s", "c", "r", "i", "p", "t", "i", "o", "n", " ", "g", "i", "v", "e", "n", ".">>>>, <<<<"F", "o", "o">>, <<" ", "m", "o", "r", "e", " ">>>>}

\* The pages tried: every combination of status, markers, list count, span
\* count, heading and description, and pages that differ from the good page
\* in one other field.
ShapedDocs ==
    {[GoodDoc EXCEPT !.status = st, !.markers = m, !.lists = l, !.spans = SpansCut(n),
                     !.h1 = Some(h), !.description = Some(d)] :
        st \in {200, 404}, m \in {{}} \cup {{x} : x \in Markers}, l \in {0, 3, 4},
        n \in {0, 9, 10, 11}, h \in Headings, d \in Descriptions}
FieldDocs ==
    {GoodDoc, NotFoundDoc, ErrorDoc, EllipsisDoc,
     [GoodDoc EXCEPT !.send_ok = FALSE],
     [GoodDoc EXCEPT !.spans[4] = <<<<"b", "i", "g">>>>],
     [GoodDoc EXCEPT !.spans[6] = <<<<"1", ",", "2">>>>],
     [GoodDoc EXCEPT !.spans[7] = <<<<"n", "o", "w">>>>],
     UnderflowDoc,
     [GoodDoc EXCEPT !.spans[8] = <<>>],
     [GoodDoc EXCEPT !.spans[9] = <<<<"-">>>>],
     [GoodDoc EXCEPT !.spans[10] = <<>>],
     [GoodDoc EXCEPT !.infohash = None],
     [GoodDoc EXCEPT !.h1 = None],
     [GoodDoc EXCEPT !.description = None],
     [GoodDoc EXCEPT !.movie_link = None],
     [GoodDoc EXCEPT !.movie_link = Some(<<"/", "m", "o", "v", "i", "e", "/", "x", "/", "y", "/">>)],
     [GoodDoc EXCEPT !.movie_link = Some(<<"/", "m", "o", "v", "i", "e", "/", "4", "2", "/">>)],
     [GoodDoc EXCEPT !.movie_link = Some(<<"/", "s", "e", "r", "i", "e", "s", "/", "g", "o", "t", "/">>)],
     [GoodDoc EXCEPT !.movie_link = Some(<<"/", "s", "e", "r", "i", "e", "s", "/", "g", "o", "t", "/", "s", "1", "/">>)],
     [GoodDoc EXCEPT !.movie_link = Some(<<"/", "x", "/">>)],
     [GoodDoc EXCEPT !.comment_count = Some(<<"2">>)],
     [GoodDoc EXCEPT !.comment_count = Some(<<"0">>)],
     [GoodDoc EXCEPT !.comment_count = Some(<<"m", "a", "n", "y">>)],
     [GoodDoc EXCEPT !.comment_count = Some(<<"2">>), !.comments.send_ok = FALSE],
     [GoodDoc EXCEPT !.comment_count = Some(<<"2">>), !.comments.utf8 = FALSE],
     [GoodDoc EXCEPT !.comment_count = Some(<<"2">>), !.comments.status = 500],
     [GoodDoc EXCEPT !.comment_count = Some(<<"2">>), !.comments.json = None],
     [GoodDoc EXCEPT !.comment_count = Some(<<"2">>), !.comments.json = Some(<<>>)],
     [GoodDoc EXCEPT !.comment_count = Some(<<"2">>),
                     !.comments.json = Some(<<RawComment(<<"9", " ", "d", "e", "c", "a", "d", "e", "s", " ", "a", "g", "o">>)>>)]}
ExtractDocs == ShapedDocs \cup FieldDocs

\* chrono::Utc::now().timestamp() as u64
Now == U64(1700000000)

InitExtract ==
    /\ arg \in [now : {Now}, doc : ExtractDocs]
    /\ overflow_checks \in BOOLEAN
    /\ result = None
    /\ pc = "ready"
    /\ IdleStore /\ IdleHist /\ IdleCrash /\ IdleDriver

\* scrape_torrent(id), the transport answering doc
ApplyExtract ==
    /\ pc = "ready"
    /\ result' = scrape_torrent(overflow_checks, arg.now, arg.doc)
    /\ pc' = "done"
    /\ UNCHANGED <<loaded_chunk, chunk, disk, cause, histVars, crashVars, driverVars,
                   arg, overflow_checks>>

NextExtract == ApplyExtract

SpecExtract == InitExtract /\ [][NextExtract]_vars

\* C4: a page fetched with status 200 whose body contains a marker string
\* yields Tombstone whatever the number of lists and of spans.
MarkerMakesTombstone ==
    (pc = "done" /\ arg.doc.send_ok /\ arg.doc.status = 200
        /\ arg.doc.markers \cap Markers # {}) =>
            result = Ok(None)

\* What the code does meet of C4: the marker decides when the page does not
\* have three lists; with three lists it is not looked at, and a number of
\* spans other than ten is an error.
MarkerOnlyWithoutLists ==
    (pc = "done" /\ arg.doc.send_ok /\ arg.doc.status = 200
        /\ arg.doc.markers \cap Markers # {}) =>
            /\ arg.doc.lists # 3 => result = Ok(None)
            /\ (arg.doc.lists = 3 /\ Len(arg.doc.spans) # 10) => result.kind = "err"
            /\ (arg.doc.lists = 3 /\ Len(arg.doc.spans) = 10) =>
                   result = scrape_torrent(overflow_checks, arg.now,
                                           [arg.doc EXCEPT !.markers = {}])

(***************************************************************************)
(* main: the crawl driver (SpecDriver)                                     *)
(***************************************************************************)

\* let mut i: usize = 99;
Floor == 99

\* if i % 80 == 0 { stash.save() }
Cadence == 80

\* The run is followed until the cursor reaches MaxId.  The first
\* VariedFetches fetches of a run are answered by any of the pages below, the
\* later ones by the good page.
MaxId == 182
VariedFetches == 1
DriverDocs == {GoodDoc, NotFoundDoc, ErrorDoc, EllipsisDoc, UnderflowDoc}
Responses == IF queries < VariedFetches THEN DriverDocs ELSE {GoodDoc}

\* scrape_torrent on each of these pages, tabulated.
Scraped == [checks \in BOOLEAN, doc \in DriverDocs |-> scrape_torrent(checks, Now, doc)]

\* The ids that earlier runs may have recorded, as items or as tombstones.
StartIds == {Floor + 1, 2 * Cadence}

InitDriver ==
    /\ disk \in Directories(StartIds, {None, Some(InfoA)})
    /\ loaded_chunk = 0
    /\ chunk = EmptyMap
    /\ pc = "start"
    /\ cause = "none"
    /\ i = Floor
    /\ queries = 0
    /\ outcome = None
    /\ firstFetch = 0
    /\ startIds = UNION {DOMAIN disk[k].map : k \in ChunkIds}
    /\ sinceFlush = 0
    /\ overflow_checks \in BOOLEAN
    /\ arg = None /\ result = None
    /\ IdleHist /\ IdleCrash

\* let mut stash = Stash::open();
DriverOpen ==
    /\ pc = "start"
    /\ LET s == open(disk)
       IN  /\ loaded_chunk' = s.loaded_chunk
           /\ chunk' = s.chunk
           /\ disk' = s.disk
           /\ pc' = IF s.failed THEN "panicked" ELSE "loop"
           /\ cause' = IF s.failed THEN "storage" ELSE cause
    /\ UNCHANGED <<histVars, crashVars, driverVars, fnVars>>

\* i += 1; if stash.contains_key(&i) { continue; }
Advance ==
    /\ pc = "loop"
    /\ i < MaxId
    /\ i' = i + 1
    /\ LET r == contains_key(Current, i')
       IN  /\ loaded_chunk' = r.stash.loaded_chunk
           /\ chunk' = r.stash.chunk
           /\ disk' = r.stash.disk
           /\ pc' = IF r.stash.failed THEN "panicked"
                    ELSE IF r.found THEN "loop" ELSE "fetch"
           /\ cause' = IF r.stash.failed THEN "storage" ELSE cause
    /\ sinceFlush' = IF loaded_chunk # ChunkOf(i') THEN 0 ELSE sinceFlush
    /\ UNCHANGED <<queries, outcome, firstFetch, startIds, histVars, crashVars, fnVars>>

\* scrape_torrent(i); a panic inside it ends the process.
Fetch ==
    /\ pc = "fetch"
    /\ \E doc \in Responses :
        /\ outcome' = Scraped[overflow_checks, doc]
        /\ pc' = IF outcome'.kind = "panic" THEN "panicked" ELSE "record"
        /\ cause' = IF outcome'.kind = "panic" THEN "extract" ELSE cause
    /\ firstFetch' = IF firstFetch = 0 THEN i ELSE firstFetch
    /\ UNCHANGED <<loaded_chunk, chunk, disk, i, queries, startIds, sinceFlush,
                   histVars, crashVars, fnVars>>

\* The arms of the match, queries += 1, the save when i % 80 == 0, and the
\* sleep.
Record ==
    /\ pc = "record"
    /\ LET inserted == IF outcome.kind = "ok" THEN insert(Current, i, outcome.value)
                       ELSE Current
           s == IF i % Cadence = 0 THEN save(inserted) ELSE inserted
       IN  /\ loaded_chunk' = s.loaded_chunk
           /\ chunk' = s.chunk
           /\ disk' = s.disk
           /\ pc' = IF s.failed THEN "panicked" ELSE "loop"
           /\ cause' = IF s.failed THEN "storage" ELSE cause
    /\ queries' = queries + 1
    /\ sinceFlush' = IF i % Cadence = 0 THEN 0 ELSE sinceFlush + 1
    /\ outcome' = None
    /\ UNCHANGED <<i, firstFetch, startIds, histVars, crashVars, fnVars>>

NextDriver ==
    \/ DriverOpen
    \/ Advance
    \/ Fetch
    \/ Record

SpecDriver == InitDriver /\ [][NextDriver]_vars

\* Whether the store holds id: in the resident chunk or in a chunk file.
Recorded(id) ==
    \/ loaded_chunk = ChunkOf(id) /\ id \in DOMAIN chunk
    \/ disk[ChunkOf(id)].st = "ok" /\ id \in DOMAIN disk[ChunkOf(id)].map

\* The smallest id above the floor that the store did not hold at the start.
FirstAbsent == CHOOSE id \in (Floor + 1)..(MaxId + 1) :
    /\ id \notin startIds
    /\ \A j \in (Floor + 1)..(id - 1) : j \in startIds

\* C3: the driver issues no fetch for an id already in the store, item or
\* tombstone, and the first id it fetches is the smallest id >= 100 that is
\* absent from the store.
SkipsRecorded ==
    /\ pc = "fetch" => ~Recorded(i)
    /\ firstFetch # 0 => firstFetch = FirstAbsent

\* C3's case: the store held 100 as a tombstone and 160 as an item at the
\* start, the first fetch was of 101, and the cursor has passed 160 with
\* both records as they were.
SkipsRecordedWitness ==
    /\ startIds = {Floor + 1, 2 * Cadence}
    /\ firstFetch = Floor + 2
    /\ i > 2 * Cadence
    /\ pc = "fetch"
    /\ chunk[Floor + 1] = None
    /\ chunk[2 * Cadence] = Some(InfoA)

\* C5: nothing but a failure of the chunk files ends the process.
OnlyStorageEndsRun == pc = "panicked" => cause = "storage"

\* The ids whose mapping in the resident chunk is not in its chunk file.
Unflushed == {id \in DOMAIN chunk : ~FileHolds(disk, id, chunk[id])}

\* C9: at most 80 ids are processed between two consecutive flushes, so the
\* number of ids put and not flushed never exceeds 80.
FlushEveryCadence ==
    /\ sinceFlush <= Cadence
    /\ Cardinality(Unflushed) <= Cadence

=============================================================================
